---- MODULE Spec2Model ----
(***************************************************************************)
(* The kimchi-5k enrichment pipeline as a state machine: the durable       *)
(* definition store (data/2-definitions.json), the in-memory copy held by  *)
(* the running utility, and the batch loops of add-definitions             *)
(* (generation), patrol (audit), the correction utility, add-eng           *)
(* (translation) and spot-check --delete.                                  *)
(*                                                                         *)
(* JSON values are tagged records, so that typeof tests, truthiness, ?? and *)
(* trim() are computed as JavaScript computes them.  A string is a         *)
(* sequence of characters.                                                 *)
(***************************************************************************)
EXTENDS Integers, Sequences, FiniteSets, TLC

VARIABLES
  disk,      \* data/2-definitions.json: NoFile, Truncated, or [kind |-> "store", map |-> rank -> entry]
  record,    \* the running process's in-memory store (rank -> entry)
  pc,        \* "idle" (no process), "call" (request in flight), "merge" (response received)
  op,        \* the running utility: "none", "gen", "audit", "correct", "eng"
  batches,   \* chunk(pending, BATCH_SIZE) of the running utility
  batchIdx,  \* the batch loop's index i: batches[batchIdx + 1] is the batch in flight
  reqId,     \* randomUUID() of the batch in flight
  resp,      \* the service's response to the batch in flight
  clock,     \* the wall clock, read by new Date()
  nextId,    \* the next value randomUUID() returns
  calls,     \* external calls issued so far
  outcome,   \* how the last process ended: "ok", "error", "killed"; "none" while one runs
  merged,    \* [op, ranks]: the ranks whose results consecutive runs of one utility merged and persisted
  argv,      \* process.argv.slice(2) of the last process started: <<>> or <<"--delete", ids>>
  console,   \* the summary line the last spot-check printed: <<>>, <<"No entries found">> or <<"Cleared", n>>
  termEntry, \* lemmatizeWithRetry's argument entry: the term being lemmatized
  attempt,   \* lemmatizeWithRetry's loop variable
  retryPc,   \* the wrapper's position: "idle", "try", "sleep", "returned", "thrown"
  tries,     \* analyzeSyntax calls the wrapper has issued
  served,    \* how the service answered those calls, in order
  slept,     \* the durations in ms the wrapper has slept, in order
  settled,   \* the value the wrapper returned or the error it threw
  nowMs,        \* Date.now(), in ms
  startedAtMs,  \* enforceRateLimit's argument startedAtMs
  requestsMade, \* enforceRateLimit's argument: the calls of the chunk
  limiterPc,    \* enforceRateLimit's position: "idle", "sleeping", "returned"
  sleepMs,      \* the duration enforceRateLimit asked sleep() for; 0 when it did not sleep
  lemPc,        \* lemmatize main's position: "idle", "batch", "done", "failed"
  termIdx,      \* lemmatize main's loop variable i
  lemResults,   \* lemmatize main's results array
  outFile,      \* the lemma file the lemmatize utility writes
  chunkItems,   \* chunk's argument items
  chunkSize,    \* chunk's argument size
  chunked,      \* what chunk returned; <<>> before the call
  subPc,        \* lemmatizeBatch's position: "idle", "calls", "limit", "done", "failed"
  subStart,     \* lemmatizeBatch's loop variable i: the sub-group is batch.slice(i, i + MAX_CONCURRENCY)
  callPc,       \* per entry of the batch, its lemmatizeWithRetry: "waiting", "inflight", "backoff", "done", "failed"
  callAttempt,  \* per entry of the batch, the loop variable attempt of its lemmatizeWithRetry
  delayed,      \* the values of i whose enforceRateLimit has returned
  winNow,       \* Date.now() of a whole lemmatize run, in ms since its start
  winIssued     \* analyzeSyntax calls that run has issued in its first minute

vars == <<disk, record, pc, op, batches, batchIdx, reqId, resp, clock, nextId, calls, outcome, merged,
          argv, console, termEntry, attempt, retryPc, tries, served, slept, settled,
          nowMs, startedAtMs, requestsMade, limiterPc, sleepMs, lemPc, termIdx, lemResults, outFile,
          chunkItems, chunkSize, chunked, subPc, subStart, callPc, callAttempt, delayed,
          winNow, winIssued>>

\* the state of the lemmatize utility's retry wrapper
retryVars == <<termEntry, attempt, retryPc, tries, served, slept, settled>>

\* the state of enforceRateLimit
limiterVars == <<nowMs, startedAtMs, requestsMade, limiterPc, sleepMs>>

\* the state of the lemmatize utility's main loop
lemMainVars == <<lemPc, termIdx, lemResults, outFile>>

\* a call of chunk on its own: arguments and result
chunkVars == <<chunkItems, chunkSize, chunked>>

\* the state of one lemmatizeBatch call
groupVars == <<subPc, subStart, callPc, callAttempt, delayed>>

\* the calls of a lemmatize run over its first minute
windowVars == <<winNow, winIssued>>

\* the state of the lemmatize utility and of a call of chunk on its own
lemmatizeVars == <<retryVars, limiterVars, lemMainVars, chunkVars, groupVars, windowVars>>

\* the state of the definition pipeline and of spot-check
pipelineVars ==
  <<disk, record, pc, op, batches, batchIdx, reqId, resp, clock, nextId, calls, outcome, merged,
    argv, console>>

(***************************************************************************)
(* Bounds of the model.                                                    *)
(***************************************************************************)
\* timestamps handed out by new Date() in one behaviour
MaxClock == 5
\* external calls in one behaviour
MaxCalls == 3
\* elements in one array of a service response
MaxItems == 2
\* BATCH_SIZE of add-definitions (50 in the source), scaled to the four-rank list
BATCH_SIZE_GEN == 2
\* BATCH_SIZE of patrol (10 in the source), scaled
BATCH_SIZE_PATROL == 2
\* BATCH_SIZE of the correction utility (5 in the source), scaled
BATCH_SIZE_APPLY == 2
\* BATCH_SIZE of add-eng (100 in the source), scaled
BATCH_SIZE_ENG == 2

(***************************************************************************)
(* JSON values.                                                            *)
(***************************************************************************)
JNull == [t |-> "null"]
JUndef == [t |-> "undefined"]
JStr(s) == [t |-> "string", v |-> s]
JNum(n) == [t |-> "number", v |-> n]
JArr(xs) == [t |-> "array", v |-> xs]
JObj(f) == [t |-> "object", v |-> f]

\* a one-token string such as "NOUN", and the empty string ""
S(x) == JStr(<<x>>)
Empty == JStr(<<>>)

\* JavaScript truthiness: !!x
Truthy(x) ==
  CASE x.t = "null" -> FALSE
    [] x.t = "undefined" -> FALSE
    [] x.t = "string" -> x.v # <<>>
    [] x.t = "number" -> x.v # 0
    [] OTHER -> TRUE

\* a ?? b
Coalesce(a, b) == IF a.t \in {"null", "undefined"} THEN b ELSE a

\* obj.field of a parsed JSON value: undefined when the property is missing
Prop(x, f) == IF x.t = "object" /\ f \in DOMAIN x.v THEN x.v[f] ELSE JUndef

RECURSIVE TrimStart(_)
TrimStart(s) == IF s # <<>> /\ Head(s) = " " THEN TrimStart(Tail(s)) ELSE s

RECURSIVE TrimEnd(_)
TrimEnd(s) == IF s # <<>> /\ s[Len(s)] = " " THEN TrimEnd(SubSeq(s, 1, Len(s) - 1)) ELSE s

\* String.prototype.trim
Trim(x) == JStr(TrimEnd(TrimStart(x.v)))

\* new Date().toISOString() at clock value n
ISO(n) == JStr(<<"T", ToString(n)>>)

\* the n-th value of randomUUID()
UUID(n) == JStr(<<"U", ToString(n)>>)

(***************************************************************************)
(* Sequences.                                                              *)
(***************************************************************************)
SeqsUpTo(X, n) == UNION {[1..k -> X] : k \in 0..n}

Range(s) == {s[i] : i \in 1..Len(s)}

Min(a, b) == IF a < b THEN a ELSE b

\* items.slice(from, to) with 0-based from and exclusive to
Slice(items, from, to) == SubSeq(items, from + 1, Min(to, Len(items)))

\* a chunk whose loop advances by one item less than it slices
RECURSIVE ChunkOverlapping(_, _, _)
ChunkOverlapping(items, size, i) ==
  IF i < Len(items)
  THEN <<Slice(items, i, i + size)>>
         \o ChunkOverlapping(items, size, IF size > 1 THEN i + size - 1 ELSE i + 1)
  ELSE <<>>

RECURSIVE ChunkFrom(_, _, _)
ChunkFrom(items, size, i) ==
  IF i < Len(items)
  THEN <<Slice(items, i, i + size)>> \o ChunkFrom(items, size, i + size)
  ELSE <<>>

chunk(items, size) == ChunkFrom(items, size, 0)

\* the numeric keys of an object in the order Object.entries yields them: ascending
RECURSIVE Ascending(_)
Ascending(ks) ==
  IF ks = {} THEN <<>>
  ELSE LET m == CHOOSE k \in ks : \A j \in ks : k <= j
       IN <<m>> \o Ascending(ks \ {m})

(***************************************************************************)
(* The lemma list data/1-lemmas.json and the store's entries.              *)
(***************************************************************************)
TARGET_POS == {S("ADJ"), S("ADV"), S("CONJ"), S("NOUN"), S("VERB")}

ValidPos == TARGET_POS \cup {S("AFFIX"), S("DET"), S("NUM"), S("PRON"), S("PRT"), S("PUNCT"), S("X")}

\* four ranked terms: three of a target part of speech, one that is not
Lemmas == <<
  [rank |-> 1, term |-> S("ga"), lemma |-> S("gada"), pos |-> S("VERB")],
  [rank |-> 2, term |-> S("mul"), lemma |-> JUndef, pos |-> S("NOUN")],
  [rank |-> 3, term |-> S("keun"), lemma |-> S("keuda"), pos |-> S("ADJ")],
  [rank |-> 4, term |-> S("eun"), lemma |-> JUndef, pos |-> S("X")] >>

\* the ranks of the target terms, and the rank of the term that is not one
TargetRanks == {Lemmas[i].rank : i \in {j \in 1..Len(Lemmas) : Lemmas[j].pos \in TARGET_POS}}

Ranks == {Lemmas[i].rank : i \in 1..Len(Lemmas)}

NoFile == [kind |-> "absent"]
Truncated == [kind |-> "truncated"]
StoreFile(m) == [kind |-> "store", map |-> m]

EmptyMap == [r \in {} |-> JNull]

\* definitions[rank] = value
Put(m, r, e) == [k \in DOMAIN m \cup {r} |-> IF k = r THEN e ELSE m[k]]

\* a placeholder or generated entry: the fields add-definitions writes
NewEntry(def, term, lemma, pos, id, at) ==
  [def |-> def, term |-> term, lemma |-> lemma, pos |-> pos,
   defRequestId |-> id, createdAt |-> at,
   llmCheckOn |-> JUndef, concerns |-> JUndef, eng |-> JUndef]

(***************************************************************************)
(* RecordStore: load and persist.  JSON.stringify drops the properties     *)
(* whose value is undefined and JSON.parse brings the rest back unchanged; *)
(* an entry's missing property and its undefined property are both JUndef. *)
(***************************************************************************)
\* a load that takes a missing store file for an empty mapping
LoadTolerant(file) ==
  CASE file.kind = "absent" -> [err |-> "", map |-> EmptyMap]
    [] file.kind = "truncated" -> [err |-> "SyntaxError", map |-> EmptyMap]
    [] OTHER -> [err |-> "", map |-> file.map]

\* readFile + JSON.parse of the store: "ENOENT", "SyntaxError" or the mapping
Load(file) ==
  CASE file.kind = "absent" -> [err |-> "ENOENT", map |-> EmptyMap]
    [] file.kind = "truncated" -> [err |-> "SyntaxError", map |-> EmptyMap]
    [] OTHER -> [err |-> "", map |-> file.map]

\* a persist that was left out: the file stays as it was
PersistSkipped(m) == disk

\* a persist that reads the file again and keeps its entries outside the batch
PersistMerging(m) ==
  StoreFile([r \in DOMAIN m |->
               IF /\ pc = "merge" /\ disk.kind = "store"
                  /\ r \in DOMAIN disk.map
                  /\ r \notin {batches[batchIdx + 1][k] : k \in 1..Len(batches[batchIdx + 1])}
               THEN disk.map[r] ELSE m[r]])

\* writeFile(DEFINITIONS_PATH, JSON.stringify(record)) run to completion
Persist(m) == StoreFile(m)

\* loadDefinitions of add-definitions: a missing file is an empty mapping
loadDefinitions(file) ==
  LET l == Load(file)
  IN IF l.err = "ENOENT" THEN [err |-> "", map |-> EmptyMap] ELSE l

\* a back-fill loop that writes a placeholder over every rank, present or not
RECURSIVE ensureFromOverwrites(_, _, _, _)
ensureFromOverwrites(definitions, lemmas, i, at) ==
  IF i > Len(lemmas) THEN definitions
  ELSE LET e == lemmas[i]
       IN ensureFromOverwrites(
            Put(definitions, e.rank, NewEntry(JNull, e.term, e.lemma, e.pos, Empty, at)),
            lemmas, i + 1, at)

RECURSIVE ensureFrom(_, _, _, _)
ensureFrom(definitions, lemmas, i, at) ==
  IF i > Len(lemmas) THEN definitions
  ELSE LET e == lemmas[i]
           next == IF e.rank \in DOMAIN definitions
                   THEN definitions
                   ELSE Put(definitions, e.rank,
                            NewEntry(JNull, e.term, e.lemma, e.pos, Empty, at))
       IN ensureFrom(next, lemmas, i + 1, at)

\* a back-fill that leaves out the terms generation never defines
ensureTargetRanksOnly(definitions, lemmas, at) ==
  ensureFrom(definitions, SelectSeq(lemmas, LAMBDA e : e.pos \in TARGET_POS), 1, at)

ensureAllRanksPresent(definitions, lemmas, at) == ensureFrom(definitions, lemmas, 1, at)

\* the lemma entry a batch holds for a rank
LemmaOf(r) == Lemmas[CHOOSE i \in 1..Len(Lemmas) : Lemmas[i].rank = r]

\* lemmas.filter(TARGET_POS.has(pos) && !existingDefinitions[rank]?.def), as ranks
GenTodo(definitions) ==
  LET keep(e) == /\ e.pos \in TARGET_POS
                 /\ ~(e.rank \in DOMAIN definitions /\ Truthy(definitions[e.rank].def))
      kept == SelectSeq(Lemmas, keep)
  IN [i \in 1..Len(kept) |-> kept[i].rank]

(***************************************************************************)
(* Service responses.  kind "error": the call rejected or gave no          *)
(* output_text; "badjson": output_text is not JSON; "json": body is the    *)
(* parsed object.                                                          *)
(***************************************************************************)
NoResp == [kind |-> "none"]
CallError == [kind |-> "error"]
BadJson == [kind |-> "badjson"]
Json(body) == [kind |-> "json", body |-> JObj(body)]

\* ranks a response may name: the store's ranks and one the store does not hold
RespRanks == Ranks \cup {Len(Lemmas) + 1}

\* the array field of a response: missing, or an array of at most MaxItems items
ArrayField(Items) == {JUndef} \cup {JArr(xs) : xs \in SeqsUpTo(Items, MaxItems)}

GenItems ==
  {JObj([rank |-> JNum(r), def |-> S("a")]) : r \in Ranks}
    \cup {JObj([rank |-> JNum(1), def |-> S(" ")]), JObj([rank |-> JNum(2), def |-> JNull])}

GenResponses ==
  {CallError, BadJson} \cup {Json([definitions |-> a]) : a \in ArrayField(GenItems)}

(***************************************************************************)
(* add-definitions: parseDefinitions and the merge of its result.          *)
(***************************************************************************)
RECURSIVE parseDefItems(_, _, _, _, _)
parseDefItems(items, batch, defRequestId, at, results) ==
  IF items = <<>> THEN [ok |-> TRUE, map |-> results]
  ELSE LET item == Head(items)
           rank == Prop(item, "rank")
           def == Prop(item, "def")
       IN IF ~Truthy(item) \/ rank.t # "number" \/ def.t # "string"
          THEN [ok |-> FALSE, map |-> EmptyMap]
          ELSE IF rank.v \notin Range(batch)
          THEN parseDefItems(Tail(items), batch, defRequestId, at, results)
          ELSE LET source == LemmaOf(rank.v)
               IN parseDefItems(Tail(items), batch, defRequestId, at,
                    Put(results, rank.v,
                        NewEntry(Trim(def), source.term, source.lemma, source.pos,
                                 defRequestId, at)))

parseDefinitions(response, batch, defRequestId, at) ==
  IF response.kind # "json" THEN [ok |-> FALSE, map |-> EmptyMap]
  ELSE LET definitions == Prop(response.body, "definitions")
       IN IF ~Truthy(definitions) \/ definitions.t # "array"
          THEN [ok |-> FALSE, map |-> EmptyMap]
          ELSE parseDefItems(definitions.v, batch, defRequestId, at, EmptyMap)

\* for (const [rank, definition] of Object.entries(batchDefinitions)) existing[rank] = definition
MergeDefinitions(existing, batchDefinitions) ==
  [r \in DOMAIN existing \cup DOMAIN batchDefinitions |->
     IF r \in DOMAIN batchDefinitions THEN batchDefinitions[r] ELSE existing[r]]

(***************************************************************************)
(* patrol: parseLLMResult and the audit merge.                             *)
(***************************************************************************)
\* pos_fixes a response may hold at most
MaxFixes == 1

ConcernItems ==
  {JObj([rank |-> JNum(r), key |-> S("def"), why |-> S("w")]) : r \in TargetRanks}
    \cup {JObj([rank |-> JNum(1), key |-> S("pos"), why |-> S("w")]),
          JObj([rank |-> JNum(2), key |-> S("def")])}

PosFixItems ==
  {JObj([rank |-> JNum(1), newPos |-> S("ADJ")]),
   JObj([rank |-> JNum(2), newPos |-> S("BOGUS")]),
   JObj([rank |-> JNum(3), newPos |-> S("PRON")]),
   JObj([rank |-> JNum(1), newPos |-> Empty])}

AuditResponses ==
  {CallError, BadJson}
    \cup {Json([concerns |-> c, pos_fixes |-> p]) :
            c \in ArrayField(ConcernItems),
            p \in {JArr(xs) : xs \in SeqsUpTo(PosFixItems, MaxFixes)}}

\* a concern filter that accepts every string key
ValidConcernAnyKey(c) ==
  /\ Truthy(c)
  /\ Prop(c, "rank").t = "number"
  /\ Prop(c, "key").t = "string"
  /\ Prop(c, "why").t = "string"

ValidConcern(c) ==
  /\ Truthy(c)
  /\ Prop(c, "rank").t = "number"
  /\ Prop(c, "key") = S("def")
  /\ Prop(c, "why").t = "string"

ValidPosFix(p) ==
  /\ Truthy(p)
  /\ Prop(p, "rank").t = "number"
  /\ Prop(p, "newPos").t = "string"

\* (field ?? []).filter(valid): a value without filter() throws a TypeError
FilterField(field, valid(_)) ==
  LET list == Coalesce(field, JArr(<<>>))
  IN IF list.t # "array" THEN [ok |-> FALSE, items |-> <<>>]
     ELSE [ok |-> TRUE, items |-> SelectSeq(list.v, valid)]

parseLLMResult(response) ==
  IF response.kind # "json" THEN [ok |-> FALSE, concerns |-> <<>>, posFixes |-> <<>>]
  ELSE LET c == FilterField(Prop(response.body, "concerns"), ValidConcern)
           p == FilterField(Prop(response.body, "pos_fixes"), ValidPosFix)
       IN [ok |-> c.ok /\ p.ok, concerns |-> c.items, posFixes |-> p.items]

\* groupConcernsByRank(concerns).get(rank) ?? []
concernsByRank(concerns, rank) ==
  SelectSeq(concerns, LAMBDA c : c.v.rank.v = rank)

\* new Map(posFixes.map(p => [p.rank, p.newPos])).get(rank): the last pair of a key wins
RECURSIVE posFixByRank(_, _)
posFixByRank(posFixes, rank) ==
  IF posFixes = <<>> THEN JUndef
  ELSE LET last == posFixes[Len(posFixes)]
       IN IF last.v.rank.v = rank THEN last.v.newPos
          ELSE posFixByRank(SubSeq(posFixes, 1, Len(posFixes) - 1), rank)

\* a loop body that stamps only the entries the service has findings for
AuditEntryFlaggedOnly(entry, rank, concerns, posFixes, stamp) ==
  IF concernsByRank(concerns, rank) = <<>> THEN entry
  ELSE [entry EXCEPT !.llmCheckOn = stamp,
                     !.concerns = JArr(concernsByRank(concerns, rank))]

\* a loop body that adds the findings to the concerns the entry already has
AuditEntryAppends(entry, rank, concerns, posFixes, stamp) ==
  LET fixedPos == posFixByRank(posFixes, rank)
      had == IF entry.concerns.t = "array" THEN entry.concerns.v ELSE <<>>
  IN [entry EXCEPT !.llmCheckOn = stamp,
                   !.concerns = JArr(had \o concernsByRank(concerns, rank)),
                   !.pos = IF Truthy(fixedPos) THEN fixedPos ELSE @]

\* the body of patrol's loop over the batch, for one entry
AuditEntry(entry, rank, concerns, posFixes, stamp) ==
  LET fixedPos == posFixByRank(posFixes, rank)
  IN [entry EXCEPT !.llmCheckOn = stamp,
                   !.concerns = JArr(concernsByRank(concerns, rank)),
                   !.pos = IF Truthy(fixedPos) THEN fixedPos ELSE @]

\* a merge that also audits every entry a finding or a fix of the response names
MergeAuditNamedRanks(rec, batch, concerns, posFixes, stamp) ==
  LET named == {concerns[k].v.rank.v : k \in 1..Len(concerns)}
                 \cup {posFixes[k].v.rank.v : k \in 1..Len(posFixes)}
  IN [r \in DOMAIN rec |->
        IF r \in Range(batch) \cup named
        THEN AuditEntry(rec[r], r, concerns, posFixes, stamp) ELSE rec[r]]

MergeAudit(rec, batch, concerns, posFixes, stamp) ==
  [r \in DOMAIN rec |->
     IF r \in Range(batch) THEN AuditEntry(rec[r], r, concerns, posFixes, stamp) ELSE rec[r]]

\* Object.entries(record).filter(def !== null && !llmCheckOn), as ranks
AuditPending(rec) ==
  SelectSeq(Ascending(DOMAIN rec),
            LAMBDA r : rec[r].def # JNull /\ ~Truthy(rec[r].llmCheckOn))

(***************************************************************************)
(* The correction utility: parseCorrections and applyCorrections.          *)
(***************************************************************************)
CorrectionItems ==
  {JObj([rank |-> JNum(r), action |-> S("replace"), def |-> S("b")]) : r \in RespRanks \ {2}}
    \cup {JObj([rank |-> JNum(r), action |-> S("null"), def |-> JNull]) : r \in {1, 2}}
    \cup {JObj([rank |-> JNum(2), action |-> S("keep"), def |-> JNull]),
          JObj([rank |-> JNum(1), action |-> S("replace"), def |-> JNull]),
          JObj([rank |-> JNum(1), action |-> S("drop"), def |-> JNull]),
          JObj([rank |-> JNum(2), action |-> S("replace")])}

CorrectionResponses ==
  {CallError, BadJson} \cup {Json([corrections |-> a]) : a \in ArrayField(CorrectionItems)}

ValidCorrection(c) ==
  /\ Truthy(c)
  /\ Prop(c, "rank").t = "number"
  /\ Prop(c, "action") \in {S("replace"), S("keep"), S("null")}
  /\ (Prop(c, "def").t = "string" \/ Prop(c, "def") = JNull)

parseCorrections(response) ==
  IF response.kind # "json" THEN [ok |-> FALSE, items |-> <<>>]
  ELSE FilterField(Prop(response.body, "corrections"), ValidCorrection)

\* a loop body in which "keep" skips the entry altogether
ApplyCorrectionKeepSkips(entry, c, timestamp) ==
  IF c.v.action = S("keep") THEN entry
  ELSE [entry EXCEPT !.def = IF c.v.action = S("replace") THEN Coalesce(c.v.def, @) ELSE JNull,
                     !.concerns = JArr(<<>>),
                     !.llmCheckOn = timestamp]

\* the body of applyCorrections' loop, for one correction
ApplyCorrection(entry, c, timestamp) ==
  [entry EXCEPT !.def = CASE c.v.action = S("replace") -> Coalesce(c.v.def, @)
                          [] c.v.action = S("null") -> JNull
                          [] OTHER -> @,
                !.concerns = JArr(<<>>),
                !.llmCheckOn = timestamp]

RECURSIVE applyCorrections(_, _, _)
applyCorrections(rec, corrections, timestamp) ==
  IF corrections = <<>> THEN rec
  ELSE LET c == Head(corrections)
           r == c.v.rank.v
           next == IF r \notin DOMAIN rec THEN rec
                   ELSE [rec EXCEPT ![r] = ApplyCorrection(rec[r], c, timestamp)]
       IN applyCorrections(next, Tail(corrections), timestamp)

\* entry.concerns?.length ?? 0
ConcernCount(entry) == IF entry.concerns.t = "array" THEN Len(entry.concerns.v) ELSE 0

\* Object.entries(record).filter(concerns.length > 0 && def !== null), as ranks
CorrectionPending(rec) ==
  SelectSeq(Ascending(DOMAIN rec),
            LAMBDA r : ConcernCount(rec[r]) > 0 /\ rec[r].def # JNull)

(***************************************************************************)
(* add-eng: parseTranslations and the translation merge.                   *)
(***************************************************************************)
TranslationItems ==
  {JObj([rank |-> JNum(r), eng |-> S("e")]) : r \in RespRanks}
    \cup {JObj([rank |-> JNum(1), eng |-> S("f")]),
          JObj([rank |-> JNum(1), eng |-> S(" ")]),
          JObj([rank |-> JNum(2), eng |-> JNum(0)])}

TranslationResponses ==
  {CallError, BadJson} \cup {Json([translations |-> a]) : a \in ArrayField(TranslationItems)}

ValidTranslation(tr) ==
  /\ Truthy(tr)
  /\ Prop(tr, "rank").t = "number"
  /\ Prop(tr, "eng").t = "string"
  /\ Len(Trim(Prop(tr, "eng")).v) > 0

\* parsed.translations?.filter(valid) ?? []
parseTranslations(response) ==
  IF response.kind # "json" THEN [ok |-> FALSE, items |-> <<>>]
  ELSE FilterField(Prop(response.body, "translations"), ValidTranslation)

RECURSIVE MergeTranslations(_, _, _)
MergeTranslations(rec, translations, stamp) ==
  IF translations = <<>> THEN rec
  ELSE LET tr == Head(translations)
           r == tr.v.rank.v
           next == IF r \notin DOMAIN rec THEN rec
                   ELSE [rec EXCEPT ![r].eng = Trim(tr.v.eng),
                                    ![r].llmCheckOn = Coalesce(@, stamp)]
       IN MergeTranslations(next, Tail(translations), stamp)

\* Object.entries(record).filter(def !== null && !eng), as ranks
TranslationPending(rec) ==
  SelectSeq(Ascending(DOMAIN rec),
            LAMBDA r : rec[r].def # JNull /\ ~Truthy(rec[r].eng))

(***************************************************************************)
(* spot-check --delete.                                                    *)
(***************************************************************************)
\* the request ids handed out so far: what an operator can pass to --delete
IssuedIds == {UUID(i) : i \in 1..(nextId - 1)}

\* groupByRequest: the ids of the entries with a definition and a request id
groupByRequest(rec) ==
  {rec[r].defRequestId : r \in {k \in DOMAIN rec : Truthy(rec[k].def) /\ Truthy(rec[k].defRequestId)}}

\* the groups the run addresses: those named, or all when no id is given
Targets(rec, filterIds) ==
  IF filterIds # {} THEN groupByRequest(rec) \cap filterIds ELSE groupByRequest(rec)

\* the delete loop's test for one entry
Clears(entry, filterIds) == entry.defRequestId \in filterIds /\ entry.def # JNull

\* record[rank] = { ...entry, def: null, defRequestId: "", createdAt: now }
ClearEntry(entry, at) ==
  [entry EXCEPT !.def = JNull, !.defRequestId = Empty, !.createdAt = at]

\* a delete loop that drops the entries it was to clear
DeleteLoopRemoves(rec, filterIds, at) ==
  [r \in {k \in DOMAIN rec : ~Clears(rec[k], filterIds)} |-> rec[r]]

DeleteLoop(rec, filterIds, at) ==
  [r \in DOMAIN rec |-> IF Clears(rec[r], filterIds) THEN ClearEntry(rec[r], at) ELSE rec[r]]

(***************************************************************************)
(* The state machine.                                                      *)
(***************************************************************************)
NoRun == [op |-> "none", ranks |-> {}]

\* enforceRateLimit has not been called
LimiterIdle ==
  /\ nowMs = 0
  /\ startedAtMs = 0
  /\ requestsMade = 0
  /\ limiterPc = "idle"
  /\ sleepMs = 0

\* the lemmatize utility has not been run: no lemma file yet
LemmatizeIdle ==
  /\ lemPc = "idle"
  /\ termIdx = 0
  /\ lemResults = <<>>
  /\ outFile = NoFile

\* lemmatizeBatch has not been called
GroupIdle ==
  /\ subPc = "idle"
  /\ subStart = 0
  /\ callPc = <<>>
  /\ callAttempt = <<>>
  /\ delayed = {}

\* no lemmatize run is being timed
WindowIdle ==
  /\ winNow = 0
  /\ winIssued = 0

\* lemmatizeWithRetry has not been called
NoEntry == [rank |-> 0, term |-> Empty]
Unsettled == [kind |-> "none"]
RetryIdle ==
  /\ termEntry = NoEntry
  /\ attempt = 0
  /\ retryPc = "idle"
  /\ tries = 0
  /\ served = <<>>
  /\ slept = <<>>
  /\ settled = Unsettled

Init ==
  /\ disk = NoFile
  /\ record = EmptyMap
  /\ pc = "idle"
  /\ op = "none"
  /\ batches = <<>>
  /\ batchIdx = 0
  /\ reqId = Empty
  /\ resp = NoResp
  /\ clock = 0
  /\ nextId = 1
  /\ calls = 0
  /\ outcome = "none"
  /\ merged = NoRun
  /\ argv = <<>>
  /\ console = <<>>
  /\ RetryIdle
  /\ LimiterIdle
  /\ LemmatizeIdle
  /\ GroupIdle
  /\ WindowIdle
  /\ chunkItems = <<>> /\ chunkSize = 1 /\ chunked = <<>>

\* the ranks earlier consecutive runs of utility u merged and persisted
MergedBy(u) == IF merged.op = u THEN merged ELSE [op |-> u, ranks |-> {}]

\* const batch = batches[i]
Batch == batches[batchIdx + 1]

\* the process ends: its memory is gone
Exit(how) ==
  /\ pc' = "idle"
  /\ op' = "none"
  /\ batches' = <<>>
  /\ batchIdx' = 0
  /\ reqId' = Empty
  /\ resp' = NoResp
  /\ record' = EmptyMap
  /\ outcome' = how
  /\ UNCHANGED lemmatizeVars

\* main() rejects before its batch loop: nothing but the exit code changes
FailAtLoad == Exit("error") /\ UNCHANGED <<disk, clock, nextId, calls, merged>>

\* a utility that treats an empty pending list as a failure
BeginFailsOnEmpty(u, rec, pending, size) ==
  IF pending = <<>>
  THEN Exit("error")
  ELSE /\ calls < MaxCalls /\ clock < MaxClock
       /\ pc' = "call"
       /\ op' = u
       /\ batches' = chunk(pending, size)
       /\ batchIdx' = 0
       /\ record' = rec
       /\ outcome' = "none"
       /\ UNCHANGED <<reqId, resp>>
       /\ UNCHANGED lemmatizeVars

\* a utility has loaded the store: it returns when nothing is pending, else enters its loop
Begin(u, rec, pending, size) ==
  IF pending = <<>>
  THEN Exit("ok")
  ELSE /\ calls < MaxCalls /\ clock < MaxClock
       /\ pc' = "call"
       /\ op' = u
       /\ batches' = chunk(pending, size)
       /\ batchIdx' = 0
       /\ record' = rec
       /\ outcome' = "none"
       /\ UNCHANGED <<reqId, resp>>
       /\ UNCHANGED lemmatizeVars

\* randomUUID() and client.responses.create for the batch at the head
Call(u, Responses) ==
  /\ pc = "call" /\ op = u
  /\ calls < MaxCalls /\ clock < MaxClock
  /\ reqId' = UUID(nextId)
  /\ nextId' = nextId + 1
  /\ calls' = calls + 1
  /\ resp' \in Responses
  /\ pc' = "merge"
  /\ UNCHANGED <<disk, record, op, batches, batchIdx, clock, outcome, merged, argv, console>>
  /\ UNCHANGED lemmatizeVars

\* the call or the parse threw: main() rejects, the loop is left
Abort == Exit("error") /\ UNCHANGED <<disk, clock, nextId, calls, merged, argv, console>>

\* a loop that ends the run after its first batch
AdvanceOnce(rec, ticks, ranks) ==
  /\ disk' = Persist(rec)
  /\ clock' = clock + ticks
  /\ merged' = [merged EXCEPT !.ranks = @ \cup ranks]
  /\ UNCHANGED <<nextId, calls, argv, console>>
  /\ Exit("ok")

\* the batch is merged: persist the whole store, then the next batch or the end
Advance(rec, ticks, ranks) ==
  /\ disk' = Persist(rec)
  /\ clock' = clock + ticks
  /\ merged' = [merged EXCEPT !.ranks = @ \cup ranks]
  /\ UNCHANGED <<nextId, calls, argv, console>>
  /\ IF batchIdx + 1 >= Len(batches)
     THEN Exit("ok")
     ELSE /\ pc' = "call"
          /\ batchIdx' = batchIdx + 1
          /\ record' = rec
          /\ reqId' = Empty
          /\ resp' = NoResp
          /\ UNCHANGED <<op, batches, outcome>>
          /\ UNCHANGED lemmatizeVars

---------------------------------------------------------------------------
\* add-definitions main(), up to its batch loop
StartGeneration ==
  /\ pc = "idle"
  /\ argv' = <<>> /\ console' = <<>>
  /\ LET l == loadDefinitions(disk)
         filled == ensureAllRanksPresent(l.map, Lemmas, ISO(clock))
         ticks == IF filled # l.map THEN 1 ELSE 0
     IN IF l.err # "" THEN FailAtLoad
        ELSE /\ clock + ticks <= MaxClock
             /\ disk' = Persist(filled)
             /\ clock' = clock + ticks
             /\ merged' = MergedBy("gen")
             /\ UNCHANGED <<nextId, calls>>
             /\ Begin("gen", filled, GenTodo(filled), BATCH_SIZE_GEN)

CallGeneration == Call("gen", GenResponses)

\* requestBatch's parse, the merge of its result, persistDefinitions
MergeGeneration ==
  /\ pc = "merge" /\ op = "gen"
  /\ LET p == parseDefinitions(resp, Batch, reqId, ISO(clock))
     IN IF ~p.ok THEN Abort
        ELSE Advance(MergeDefinitions(record, p.map),
                     IF p.map # EmptyMap THEN 1 ELSE 0, DOMAIN p.map)

\* what loadRecord returns for the store file as it is now
Loaded == Load(disk)

\* a utility that does not tolerate a missing store: loadRecord, the pending filter
Start(u, pending, size) ==
  /\ pc = "idle"
  /\ argv' = <<>> /\ console' = <<>>
  /\ IF Loaded.err # "" THEN FailAtLoad
     ELSE /\ merged' = MergedBy(u)
          /\ UNCHANGED <<disk, clock, nextId, calls>>
          /\ Begin(u, Loaded.map, pending, size)

StartAudit == Start("audit", AuditPending(Loaded.map), BATCH_SIZE_PATROL)

CallAudit == Call("audit", AuditResponses)

\* parseLLMResult, the stamp-and-replace loop over the batch, persistRecord
MergeAuditBatch ==
  /\ pc = "merge" /\ op = "audit"
  /\ LET p == parseLLMResult(resp)
     IN IF ~p.ok THEN Abort
        ELSE Advance(MergeAudit(record, Batch, p.concerns, p.posFixes, ISO(clock)),
                     1, Range(Batch))

StartCorrection == Start("correct", CorrectionPending(Loaded.map), BATCH_SIZE_APPLY)

CallCorrection == Call("correct", CorrectionResponses)

\* the ranks of the items a merge found an entry for
Addressed(rec, items) == {items[i].v.rank.v : i \in 1..Len(items)} \cap DOMAIN rec

\* parseCorrections, applyCorrections, persistRecord
MergeCorrection ==
  /\ pc = "merge" /\ op = "correct"
  /\ LET p == parseCorrections(resp)
     IN IF ~p.ok THEN Abort
        ELSE Advance(applyCorrections(record, p.items, ISO(clock)), 1, Addressed(record, p.items))

StartTranslation == Start("eng", TranslationPending(Loaded.map), BATCH_SIZE_ENG)

CallTranslation == Call("eng", TranslationResponses)

\* parseTranslations, the translation loop, persistDefinitions
MergeTranslation ==
  /\ pc = "merge" /\ op = "eng"
  /\ LET p == parseTranslations(resp)
     IN IF ~p.ok THEN Abort
        ELSE Advance(MergeTranslations(record, p.items, ISO(clock)), 1, Addressed(record, p.items))

\* spot-check --delete ids: the whole utility
SpotCheckDelete ==
  /\ pc = "idle"
  /\ \E filterIds \in SUBSET IssuedIds :
       LET l == Load(disk)
           found == Targets(l.map, filterIds) # {}
           cleared == {r \in DOMAIN l.map : Clears(l.map[r], filterIds)}
           ticks == IF found /\ cleared # {} THEN 1 ELSE 0
       IN /\ argv' = <<"--delete", filterIds>>
          /\ IF l.err # "" THEN FailAtLoad /\ console' = <<>>
             ELSE
               /\ clock + ticks <= MaxClock
               /\ disk' = IF found THEN Persist(DeleteLoop(l.map, filterIds, ISO(clock)))
                          ELSE disk
               /\ console' = IF found THEN <<"Cleared", Cardinality(cleared)>>
                             ELSE <<"No entries found">>
               /\ clock' = clock + ticks
               /\ merged' = NoRun
               /\ Exit("ok")
               /\ UNCHANGED <<nextId, calls>>

\* the operator terminates the running process
Kill ==
  /\ pc # "idle"
  /\ Exit("killed")
  /\ UNCHANGED <<disk, clock, nextId, calls, merged, argv, console>>

Next ==
  \/ StartGeneration \/ CallGeneration \/ MergeGeneration
  \/ StartAudit \/ CallAudit \/ MergeAuditBatch
  \/ StartCorrection \/ CallCorrection \/ MergeCorrection
  \/ StartTranslation \/ CallTranslation \/ MergeTranslation
  \/ SpotCheckDelete
  \/ Kill

Spec == Init /\ [][Next]_vars

---------------------------------------------------------------------------
(***************************************************************************)
(* Properties.                                                             *)
(***************************************************************************)
\* the durable store's mapping (empty while there is no readable file)
Stored == IF disk.kind = "store" THEN disk.map ELSE EmptyMap

\* C1: in every reachable state of the durable store, an entry with def = null
\* has defRequestId = "" (also after a correction with action "null" was merged).
C1_NullDefHasEmptyRequestId ==
  \A r \in DOMAIN Stored : Stored[r].def = JNull => Stored[r].defRequestId = Empty

\* C2: in every reachable state of the durable store, an entry with a non-empty
\* concerns sequence has def # null: no operation that sets def to null leaves
\* concerns on the entry.
C2_ConcernsOnlyWithDef ==
  \A r \in DOMAIN Stored : ConcernCount(Stored[r]) > 0 => Stored[r].def # JNull

\* C3: the whole store is persisted after batch i is merged and before the call
\* for batch i+1 is issued; if the call or the parse of batch i fails the run
\* ends there with no later call, and the durable store is exactly the store
\* after merging the batches before i, with no partial effect of batch i.
C3_PersistedAtBatchBoundary ==
  [][/\ pc' = "call" => disk' = StoreFile(record')
     /\ (pc = "merge" /\ (resp.kind \in {"error", "badjson"} \/ outcome' = "error"))
          => /\ pc' = "idle"
             /\ calls' = calls
             /\ disk = StoreFile(record)
             /\ disk' = disk]_vars

\* C3 witness: the second batch of a run has failed, the first was merged and
\* persisted, and the run is about to end.
C3_SecondBatchFails ==
  /\ pc = "merge" /\ batchIdx = 1
  /\ resp.kind \in {"error", "badjson"}
  /\ merged.ranks # {}

\* the ranks of all batches of a batch list
BatchRanks(bs) == UNION {Range(bs[b]) : b \in 1..Len(bs)}

\* C4: after a run was aborted or terminated, a rerun of the same operation
\* derives its pending subset from the durable store, and the subset holds no
\* rank whose result an earlier run merged and persisted.
C4_RerunSkipsMergedRanks ==
  [][(pc = "idle" /\ pc' = "call" /\ merged.op = op')
       => /\ disk' = StoreFile(record')
          /\ BatchRanks(batches') \cap merged.ranks = {}]_vars

(***************************************************************************)
(* Process termination during persist.  writeFile opens the store file     *)
(* for writing, which empties it, and then writes the new text: a process  *)
(* that ends in between leaves an empty file or a prefix of the new text,  *)
(* neither of which JSON.parse accepts.                                    *)
(***************************************************************************)
\* the batch in flight parses, so its handler reaches persist
ReachesPersist ==
  CASE op = "gen" -> parseDefinitions(resp, Batch, reqId, ISO(clock)).ok
    [] op = "audit" -> parseLLMResult(resp).ok
    [] op = "correct" -> parseCorrections(resp).ok
    [] op = "eng" -> parseTranslations(resp).ok
    [] OTHER -> FALSE

\* the process is terminated while the batch loop's writeFile is under way
CrashInPersist ==
  /\ pc = "merge"
  /\ ReachesPersist
  /\ disk' = Truncated
  /\ Exit("killed")
  /\ UNCHANGED <<clock, nextId, calls, merged, argv, console>>

SpecCrash == Init /\ [][Next \/ CrashInPersist]_vars

\* C5: if the process terminates at any point during persist(store), the store
\* file afterwards holds the complete previous mapping or the complete new
\* one, never a truncated or partially written one.
C5_StoreFileNeverTruncated == disk.kind # "truncated"

\* C6: a generation run sends to the service only ranks whose def is null in the
\* store when the run starts, and leaves every entry that already has a
\* non-null def exactly as it was.
C6_GenerationSkipsDefined ==
  [][/\ (pc = "idle" /\ pc' = "call" /\ op' = "gen")
          => \A r \in BatchRanks(batches') : record'[r].def = JNull
     /\ (pc = "merge" /\ op = "gen")
          => \A r \in DOMAIN record : record[r].def # JNull => Stored'[r] = record[r]]_vars

\* the handler of the batch in flight ran to its end: merged and persisted
BatchDone == pc = "merge" /\ (pc' = "call" \/ outcome' = "ok")

\* the well-formed definition-quality findings of a response that name rank r
FindingsFor(response, r) ==
  LET f == Prop(response.body, "concerns")
  IN IF f.t # "array" THEN <<>>
     ELSE SelectSeq(f.v, LAMBDA c : /\ Prop(c, "rank") = JNum(r)
                                    /\ Prop(c, "key") = S("def")
                                    /\ Prop(c, "why").t = "string")

\* C7: when an audit batch response is merged, every entry of the batch, with
\* or without findings, gets llmCheckOn set to the one batch timestamp and its
\* concerns replaced by exactly the validated findings that name its rank.
C7_AuditStampsWholeBatch ==
  [][(BatchDone /\ op = "audit")
       => \A r \in Range(Batch) :
            /\ Stored'[r].llmCheckOn = ISO(clock)
            /\ Stored'[r].concerns = JArr(FindingsFor(resp, r))]_vars

\* C7 witness: ranks 1 and 2 were audited in one batch with a finding for rank 2
\* only: both carry the same stamp, rank 1 has no concerns, rank 2 has one.
C7_OneOfTwoFlagged ==
  /\ 2 \in DOMAIN Stored
  /\ Truthy(Stored[1].llmCheckOn)
  /\ Stored[1].llmCheckOn = Stored[2].llmCheckOn
  /\ Stored[1].concerns = JArr(<<>>)
  /\ ConcernCount(Stored[2]) = 1

\* the validated corrections of a response that name rank r, in response order
CorrectionsFor(response, r) ==
  LET f == Prop(response.body, "corrections")
  IN IF f.t # "array" THEN <<>>
     ELSE SelectSeq(f.v, LAMBDA c : /\ Prop(c, "rank") = JNum(r)
                                    /\ Prop(c, "action") \in {S("replace"), S("keep"), S("null")}
                                    /\ Prop(c, "def").t \in {"string", "null"})

\* C8: for each validated correction addressing an existing entry, "replace"
\* sets def to the supplied string, "null" sets def to null and "keep" leaves
\* def unchanged; in all three cases concerns become empty and llmCheckOn the
\* batch timestamp; an entry of the batch without a correction is left unchanged.
C8_CorrectionActions ==
  [][(BatchDone /\ op = "correct")
       => \A r \in DOMAIN record :
            LET cs == CorrectionsFor(resp, r)
                last == cs[Len(cs)]
            IN IF cs = <<>>
               THEN r \in Range(Batch) => Stored'[r] = record[r]
               ELSE /\ Stored'[r].concerns = JArr(<<>>)
                    /\ Stored'[r].llmCheckOn = ISO(clock)
                    /\ (last.v.action = S("replace") /\ last.v.def.t = "string")
                         => Stored'[r].def = last.v.def
                    /\ last.v.action = S("null") => Stored'[r].def = JNull
                    /\ (\A k \in 1..Len(cs) : cs[k].v.action = S("keep"))
                         => Stored'[r].def = record[r].def]_vars

\* C8 witness: ranks 1 and 2 were flagged together, the correction batch
\* replaced the definition of rank 1 and returned nothing for rank 2.
C8_OneReplacedOneLeft ==
  /\ 2 \in DOMAIN Stored
  /\ Stored[1].def = S("b")
  /\ Stored[1].concerns = JArr(<<>>)
  /\ ConcernCount(Stored[2]) > 0
  /\ Truthy(Stored[2].llmCheckOn)
  /\ Stored[1].llmCheckOn # Stored[2].llmCheckOn

\* C9: a translation merge sets eng only on entries that have none: an entry
\* that already has eng keeps it, whatever ranks the response holds.
C9_TranslationKeepsEng ==
  [][(pc = "merge" /\ op = "eng")
       => \A r \in DOMAIN record : Truthy(record[r].eng) => Stored'[r].eng = record[r].eng]_vars

\* C10: a response item whose rank is not a rank of the batch that was sent is
\* dropped: merging a batch's response changes no entry outside the batch.
C10_OutOfBatchUntouched ==
  [][pc = "merge" => \A r \in DOMAIN record \ Range(Batch) : Stored'[r] = record[r]]_vars


\* the top-level array fields the response of each utility is required to hold
RequiredFields ==
  [gen |-> {"definitions"}, audit |-> {"concerns", "pos_fixes"},
   correct |-> {"corrections"}, eng |-> {"translations"}]

\* the response in hand is JSON and holds every required top-level array
WellFormedTop ==
  /\ resp.kind = "json"
  /\ \A f \in RequiredFields[op] : Prop(resp.body, f).t = "array"

\* C11: in every response parser an array element that lacks a required field
\* or has a field of the wrong primitive type is dropped and the other elements
\* are still merged: a response with its top-level arrays in place never makes
\* the batch fail, whatever its elements are.
C11_InvalidItemNeverAborts ==
  [][(pc = "merge" /\ WellFormedTop) => outcome' # "error"]_vars

\* C12: a response that is not valid JSON, or is JSON without a required
\* top-level array field, makes the batch fail: the run aborts with an error
\* and the durable store is left as it was, with no entry stamped or changed.
C12_MissingArrayAborts ==
  [][(pc = "merge" /\ resp.kind \in {"badjson", "json"} /\ ~WellFormedTop)
       => (outcome' \in {"error", "killed"} /\ disk' = disk)]_vars


\* C13: an entry with a definition and no llmCheckOn acquires llmCheckOn only
\* through the merge of an audit batch that contains it; generation,
\* correction, translation and spot-check never stamp a never-audited entry.
C13_OnlyAuditStamps ==
  [][\A r \in DOMAIN Stored \cap DOMAIN Stored' :
       (/\ Stored[r].def # JNull
        /\ ~Truthy(Stored[r].llmCheckOn)
        /\ Truthy(Stored'[r].llmCheckOn))
         => (pc = "merge" /\ op = "audit" /\ r \in Range(Batch))]_vars

\* C14: once an entry has llmCheckOn set it has it set in every later state,
\* under any sequence of generation, audit, correction, translation and
\* spot-check-delete runs.
C14_StampNeverRemoved ==
  [][\A r \in DOMAIN Stored :
       Truthy(Stored[r].llmCheckOn)
         => (r \in DOMAIN Stored' /\ Truthy(Stored'[r].llmCheckOn))]_vars


\* the entries a spot-check delete with request ids ids has to clear
Hit(ids) == {r \in DOMAIN Stored : Stored[r].defRequestId \in ids /\ Stored[r].def # JNull}

\* C15: spot-check delete with a set S of request ids sets def = null and
\* defRequestId = "" on exactly the entries whose defRequestId is in S and whose
\* def is non-null, leaves every other entry untouched, and reports a count
\* equal to the number of entries it cleared.
C15_DeleteClearsExactlyS ==
  [][(pc = "idle" /\ disk.kind = "store" /\ Len(argv') = 2)
       => /\ \A r \in Hit(argv'[2]) :
               Stored'[r].def = JNull /\ Stored'[r].defRequestId = Empty
          /\ \A r \in DOMAIN Stored \ Hit(argv'[2]) : Stored'[r] = Stored[r]
          /\ console' = <<"Cleared", Cardinality(Hit(argv'[2]))>>]_vars


\* C16: an entry's pos changes only when an audit batch applies a POS fix for
\* its rank; merging a generation response leaves pos and term of every entry
\* as they were in the store, also for an entry that was POS-fixed by an
\* earlier audit and whose definition was cleared and regenerated.
C16_PosChangedOnlyByAudit ==
  [][\A r \in DOMAIN Stored \cap DOMAIN Stored' :
       /\ Stored'[r].pos # Stored[r].pos
            => (pc = "merge" /\ op = "audit" /\ r \in Range(Batch))
       /\ (pc = "merge" /\ op = "gen") => Stored'[r].term = Stored[r].term]_vars


\* C17: no operation removes an entry from the store or changes the term of
\* an existing entry: the set of ranks in the durable store never shrinks and
\* each rank's term stays constant.
C17_NoEntryRemovedTermKept ==
  [][\A r \in DOMAIN Stored :
       r \in DOMAIN Stored' /\ Stored'[r].term = Stored[r].term]_vars

\* C17 witness: a spot-check delete has just cleared a definition and every
\* rank is still in the store.
C17_ClearedEntryKept ==
  /\ console = <<"Cleared", 1>>
  /\ DOMAIN Stored = Ranks
  /\ \E r \in Ranks : Stored[r].def = JNull /\ Truthy(Stored[r].llmCheckOn)

\* C18: once a generation run has back-filled the store every rank of the
\* lemma list has its entry in the store, ranks outside the target parts of
\* speech included, and the back-filled store is on disk before any
\* generation request is issued.
C18_EveryRankHasEntry ==
  /\ disk.kind = "store" => DOMAIN Stored = Ranks
  /\ (pc # "idle" /\ op = "gen") => disk.kind = "store"

\* C18 witness: the first generation batch is about to be requested and the
\* term generation never defines has its placeholder on disk.
C18_PlaceholderOnDiskBeforeCall ==
  /\ pc = "call" /\ op = "gen" /\ calls = 0
  /\ \E r \in Ranks \ TargetRanks : r \in DOMAIN Stored /\ Stored[r].def = JNull


---------------------------------------------------------------------------
(***************************************************************************)
(* ensureAllRanksPresent on its own: the store file holds any subset of    *)
(* the ranks, each entry a placeholder, a definition or an enriched        *)
(* definition, and add-definitions runs its load, back-fill and persist.   *)
(***************************************************************************)
\* the entries the store file may hold for a lemma before the back-fill
EntryShapes(e) ==
  LET defined == NewEntry(S("a"), e.term, e.lemma, e.pos, UUID(1), ISO(0))
  IN {NewEntry(JNull, e.term, e.lemma, e.pos, Empty, ISO(0)),
      defined,
      [defined EXCEPT !.llmCheckOn = ISO(0), !.concerns = JArr(<<>>), !.eng = S("e")]}

\* the stores that hold entries for some of the ranks
PartialStores ==
  UNION {{m \in [D -> UNION {EntryShapes(LemmaOf(r)) : r \in D}] :
            \A r \in D : m[r] \in EntryShapes(LemmaOf(r))} : D \in SUBSET Ranks}

InitBackfill ==
  /\ disk \in {NoFile} \cup {StoreFile(m) : m \in PartialStores}
  /\ record = EmptyMap
  /\ pc = "idle"
  /\ op = "none"
  /\ batches = <<>>
  /\ batchIdx = 0
  /\ reqId = Empty
  /\ resp = NoResp
  /\ clock = 1
  /\ nextId = 1
  /\ calls = 0
  /\ outcome = "none"
  /\ merged = NoRun
  /\ argv = <<>>
  /\ console = <<>>
  /\ RetryIdle
  /\ LimiterIdle
  /\ LemmatizeIdle
  /\ GroupIdle
  /\ WindowIdle
  /\ chunkItems = <<>> /\ chunkSize = 1 /\ chunked = <<>>

\* loadDefinitions, ensureAllRanksPresent, persistDefinitions
Backfill ==
  /\ pc = "idle"
  /\ clock < MaxClock
  /\ LET l == loadDefinitions(disk)
     IN /\ l.err = ""
        /\ disk' = Persist(ensureAllRanksPresent(l.map, Lemmas, ISO(clock)))
  /\ clock' = clock + 1
  /\ UNCHANGED <<record, pc, op, batches, batchIdx, reqId, resp, nextId, calls, outcome,
                 merged, argv, console>>
  /\ UNCHANGED lemmatizeVars

SpecBackfill == InitBackfill /\ [][Backfill]_vars

\* C19: ensureAllRanksPresent is idempotent and conservative: it never changes
\* an entry that already exists in the store, and applying it again to the
\* persisted and reloaded result yields the same store as applying it once.
C19_BackfillIdempotent ==
  [][/\ \A r \in DOMAIN Stored : r \in DOMAIN Stored' /\ Stored'[r] = Stored[r]
     /\ ensureAllRanksPresent(loadDefinitions(disk').map, Lemmas, ISO(clock')) = Stored']_vars

\* C19 witness: the back-fill ran on a store that held a definition for one
\* rank and nothing for another: the definition is kept, the gap is filled.
C19_GapFilledDefinitionKept ==
  /\ clock = 2
  /\ \E r, q \in DOMAIN Stored :
       /\ Stored[r].def = S("a") /\ Stored[r].createdAt = ISO(0)
       /\ Stored[q].def = JNull /\ Stored[q].createdAt = ISO(1)


---------------------------------------------------------------------------
(***************************************************************************)
(* lemmatize: lemmatizeOne and the retry wrapper lemmatizeWithRetry        *)
(* (analyzeWithRetry of the definition-lemma utility has the same loop).   *)
(***************************************************************************)
MAX_RETRIES == 5
BASE_BACKOFF_MS == 1000
\* the gRPC status code of a rate-limit rejection
RESOURCE_EXHAUSTED == 8

\* the term list: rank and term of each lemma
Terms == {[rank |-> Lemmas[i].rank, term |-> Lemmas[i].term] : i \in 1..Len(Lemmas)}

\* the first token analyzeSyntax may return: none, or a lemma and a tag
SyntaxTokens ==
  {JUndef,
   JObj([lemma |-> S("ga"), partOfSpeech |-> JObj([tag |-> S("VERB")])]),
   JObj([lemma |-> S("gada"), partOfSpeech |-> JObj([tag |-> S("VERB")])]),
   JObj([lemma |-> S(" "), partOfSpeech |-> JObj([tag |-> S("NOUN")])]),
   JObj([lemma |-> JUndef, partOfSpeech |-> JUndef])}

\* the code property of the errors analyzeSyntax may reject with
ErrorCodes == {JNum(RESOURCE_EXHAUSTED), JNum(3), JNum(14), JUndef}

\* lemmatizeOne once analyzeSyntax has resolved with this first token
lemmatizeOne(e, token) ==
  LET lemmaFromService == IF Prop(token, "lemma").t = "string"
                          THEN Trim(Prop(token, "lemma")) ELSE JUndef
      normalizedLemma == IF Truthy(lemmaFromService) THEN lemmaFromService ELSE e.term
      tag == Prop(Prop(token, "partOfSpeech"), "tag")
      pos == IF tag.t \in {"undefined", "null"} THEN S("UNKNOWN") ELSE tag
  IN [rank |-> e.rank, term |-> e.term,
      lemma |-> IF normalizedLemma = e.term THEN JUndef ELSE normalizedLemma,
      pos |-> pos]

Returned(v) == [kind |-> "value", v |-> v]
Thrown(code) == [kind |-> "error", code |-> code]
ExhaustedRetries == [kind |-> "exhausted"]

\* a catch block that retries everything but rate-limit rejections
RethrowsRateLimit(code, a) == code = JNum(RESOURCE_EXHAUSTED) \/ a = MAX_RETRIES

\* a catch block that retries whatever the error is, up to the last attempt
RethrowsOnlyAtLimit(code, a) == a = MAX_RETRIES

\* if (!isRateLimit || attempt === MAX_RETRIES) throw error
Rethrows(code, a) == code # JNum(RESOURCE_EXHAUSTED) \/ a = MAX_RETRIES

\* a back-off that grows by BASE_BACKOFF_MS with every attempt
backoffLinear(a) == BASE_BACKOFF_MS * (a + 1)

\* const backoffMs = BASE_BACKOFF_MS * 2 ** attempt
backoffMs(a) == BASE_BACKOFF_MS * 2^a

\* lemmatizeWithRetry(entry) is called: attempt = 0
Invoke ==
  /\ retryPc = "idle"
  /\ \E e \in Terms : termEntry' = e
  /\ attempt' = 0
  /\ retryPc' = "try"
  /\ UNCHANGED <<tries, served, slept, settled>>
  /\ UNCHANGED <<pipelineVars, limiterVars, lemMainVars, chunkVars, groupVars, windowVars>>

\* the call of this attempt resolves: return await lemmatizeOne(entry)
AttemptResolves ==
  /\ retryPc = "try"
  /\ \E token \in SyntaxTokens :
       /\ served' = Append(served, Returned(token))
       /\ settled' = Returned(lemmatizeOne(termEntry, token))
  /\ tries' = tries + 1
  /\ retryPc' = "returned"
  /\ UNCHANGED <<termEntry, attempt, slept>>
  /\ UNCHANGED <<pipelineVars, limiterVars, lemMainVars, chunkVars, groupVars, windowVars>>

\* the call of this attempt rejects: the catch block
AttemptRejects ==
  /\ retryPc = "try"
  /\ \E code \in ErrorCodes :
       /\ served' = Append(served, Thrown(code))
       /\ IF Rethrows(code, attempt)
          THEN /\ settled' = Thrown(code)
               /\ retryPc' = "thrown"
               /\ UNCHANGED slept
          ELSE /\ slept' = Append(slept, backoffMs(attempt))
               /\ retryPc' = "sleep"
               /\ UNCHANGED settled
  /\ tries' = tries + 1
  /\ UNCHANGED <<termEntry, attempt>>
  /\ UNCHANGED <<pipelineVars, limiterVars, lemMainVars, chunkVars, groupVars, windowVars>>

\* sleep(backoffMs) is over: attempt += 1 and the loop test
Wake ==
  /\ retryPc = "sleep"
  /\ attempt' = attempt + 1
  /\ IF attempt + 1 <= MAX_RETRIES
     THEN retryPc' = "try" /\ UNCHANGED settled
     ELSE retryPc' = "thrown" /\ settled' = ExhaustedRetries
  /\ UNCHANGED <<termEntry, tries, served, slept>>
  /\ UNCHANGED <<pipelineVars, limiterVars, lemMainVars, chunkVars, groupVars, windowVars>>

SpecRetry == Init /\ [][Invoke \/ AttemptResolves \/ AttemptRejects \/ Wake]_vars

\* the calls so far were all rejected with the rate-limit code
AllRateLimited(answers) ==
  \A i \in 1..Len(answers) :
    answers[i].kind = "error" /\ answers[i].code = JNum(RESOURCE_EXHAUSTED)

\* C20: if the external call fails with the rate-limit error k times and then
\* succeeds, with k < MAX_RETRIES, the retry wrapper returns the successful
\* result after exactly k + 1 attempts: after k such failures it has not given
\* up, and when call k + 1 resolves it returns that call's result.
C20_SucceedsAfterKFailures ==
  \A k \in 0..(MAX_RETRIES - 1) :
    /\ (Len(served) = k /\ AllRateLimited(served)) => retryPc \in {"idle", "try", "sleep"}
    /\ (/\ Len(served) = k + 1
        /\ AllRateLimited(SubSeq(served, 1, k))
        /\ served[k + 1].kind = "value")
         => /\ retryPc = "returned"
            /\ tries = k + 1
            /\ settled = Returned(lemmatizeOne(termEntry, served[k + 1].v))

\* C20 witness: three rate-limit rejections, then the fourth call succeeded
\* and the wrapper returned its result.
C20_ReturnedOnFourthAttempt ==
  /\ retryPc = "returned"
  /\ Len(served) = 4
  /\ AllRateLimited(SubSeq(served, 1, 3))
  /\ tries = 4
  /\ settled.kind = "value"


\* C21: if the external call fails with the rate-limit error on every attempt,
\* the wrapper makes exactly MAX_RETRIES + 1 attempts and then fails with a
\* retries-exhausted failure that is distinct from the service's error.
C21_ExhaustionIsDistinctFailure ==
  (Len(served) = MAX_RETRIES + 1 /\ AllRateLimited(served))
    => /\ retryPc = "thrown"
       /\ tries = MAX_RETRIES + 1
       /\ settled = ExhaustedRetries

\* C22: if the external call fails with an error that is not of the rate-limit
\* class, the wrapper propagates that failure at once: it is the last call
\* made, no backoff wait follows it, and the wrapper has thrown that error;
\* on the first attempt exactly one call is made.
C22_OtherErrorsPropagateAtOnce ==
  \A n \in 1..Len(served) :
    (served[n].kind = "error" /\ served[n].code # JNum(RESOURCE_EXHAUSTED))
      => /\ n = Len(served)
         /\ tries = n
         /\ Len(slept) = n - 1
         /\ retryPc = "thrown"
         /\ settled = Thrown(served[n].code)

\* C22 witness: the first call was rejected with a code other than the
\* rate-limit code and the wrapper threw after that one call.
C22_ThrownOnFirstAttempt ==
  /\ retryPc = "thrown"
  /\ tries = 1
  /\ slept = <<>>
  /\ settled = Thrown(JNum(3))


---------------------------------------------------------------------------
(***************************************************************************)
(* lemmatize: enforceRateLimit.                                            *)
(***************************************************************************)
MAX_CONCURRENCY == 10
MAX_REQUESTS_PER_MINUTE == 540
MS_PER_MINUTE == 60000

\* Math.ceil(a / b) for a >= 0, b > 0
CeilDiv(a, b) == (a + b - 1) \div b

\* a minimum duration that rounds down
minDurationRoundedDown(n) == (n * MS_PER_MINUTE) \div MAX_REQUESTS_PER_MINUTE

\* Math.ceil((chunkSize / MAX_REQUESTS_PER_MINUTE) * 60_000)
minDurationMs(n) == CeilDiv(n * MS_PER_MINUTE, MAX_REQUESTS_PER_MINUTE)

\* the ms the chunk's calls may have taken when enforceRateLimit is entered
Elapsed == {0, 1, 111, 112, 113, 556, 1000, 1111, 1112, 1113, 5000}

\* the ms by which a timer may fire late
Lateness == {0, 1, 7}

\* enforceRateLimit(chunkSize, startedAtMs) up to its return or its await
EnterLimiter ==
  /\ limiterPc = "idle"
  /\ \E n \in 1..MAX_CONCURRENCY, started \in {0, 1000}, elapsedMs \in Elapsed :
       /\ requestsMade' = n
       /\ startedAtMs' = started
       /\ nowMs' = started + elapsedMs
       /\ IF elapsedMs < minDurationMs(n)
          THEN limiterPc' = "sleeping" /\ sleepMs' = minDurationMs(n) - elapsedMs
          ELSE limiterPc' = "returned" /\ sleepMs' = 0
  /\ UNCHANGED <<pipelineVars, retryVars, lemMainVars, chunkVars, groupVars, windowVars>>

\* the timer of sleep(minDurationMs - elapsedMs) fires: enforceRateLimit returns
TimerFires ==
  /\ limiterPc = "sleeping"
  /\ \E late \in Lateness : nowMs' = nowMs + sleepMs + late
  /\ limiterPc' = "returned"
  /\ UNCHANGED <<startedAtMs, requestsMade, sleepMs>>
  /\ UNCHANGED <<pipelineVars, retryVars, lemMainVars, chunkVars, groupVars, windowVars>>

SpecRate == Init /\ [][EnterLimiter \/ TimerFires]_vars

\* C23: enforceRateLimit(n, startedAt) returns no earlier than
\* startedAt + ceil(n * 60000 / MAX_REQUESTS_PER_MINUTE) ms (for whole ms:
\* elapsed * MAX_REQUESTS_PER_MINUTE >= n * 60000), and returns without
\* sleeping when at least that much time has elapsed when it is called.
C23_RateLimitMinimumDuration ==
  [][/\ limiterPc' = "returned"
          => (nowMs' - startedAtMs') * MAX_REQUESTS_PER_MINUTE >= requestsMade' * MS_PER_MINUTE
     /\ (/\ limiterPc = "idle" /\ limiterPc' # "idle"
         /\ (nowMs' - startedAtMs') * MAX_REQUESTS_PER_MINUTE >= requestsMade' * MS_PER_MINUTE)
          => (limiterPc' = "returned" /\ sleepMs' = 0)]_vars

\* C23 witness: one request, 111 ms elapsed: the limiter slept 1 ms and
\* returned at 112 ms.
C23_SleptTheRemainder ==
  /\ limiterPc = "returned"
  /\ requestsMade = 1
  /\ sleepMs = 1
  /\ nowMs - startedAtMs = 112


---------------------------------------------------------------------------
(***************************************************************************)
(* chunk on its own: any non-empty sequence, any positive size.            *)
(***************************************************************************)
MaxChunkItems == 5
MaxChunkSize == 4

InitChunk ==
  /\ chunkItems \in SeqsUpTo({"x", "y"}, MaxChunkItems) \ {<<>>}
  /\ chunkSize \in 1..MaxChunkSize
  /\ chunked = <<>>
  /\ disk = NoFile
  /\ record = EmptyMap
  /\ pc = "idle"
  /\ op = "none"
  /\ batches = <<>>
  /\ batchIdx = 0
  /\ reqId = Empty
  /\ resp = NoResp
  /\ clock = 0
  /\ nextId = 1
  /\ calls = 0
  /\ outcome = "none"
  /\ merged = NoRun
  /\ argv = <<>>
  /\ console = <<>>
  /\ RetryIdle
  /\ LimiterIdle
  /\ LemmatizeIdle
  /\ GroupIdle
  /\ WindowIdle

\* const batches = chunk(items, size)
ApplyChunk ==
  /\ chunked = <<>>
  /\ chunked' = chunk(chunkItems, chunkSize)
  /\ UNCHANGED <<chunkItems, chunkSize>>
  /\ UNCHANGED <<pipelineVars, retryVars, limiterVars, lemMainVars, groupVars, windowVars>>

SpecChunk == InitChunk /\ [][ApplyChunk]_vars

\* the groups of a chunking, one after the other
RECURSIVE Concat(_)
Concat(groups) == IF groups = <<>> THEN <<>> ELSE Head(groups) \o Concat(Tail(groups))

\* C24: for every non-empty item sequence and every positive size the groups
\* chunk returns concatenate to the input in its order, every group but
\* possibly the last has exactly size elements, and no group is empty.
C24_ChunkPartitionsInput ==
  chunked # <<>>
    => /\ Concat(chunked) = chunkItems
       /\ \A g \in 1..(Len(chunked) - 1) : Len(chunked[g]) = chunkSize
       /\ \A g \in 1..Len(chunked) : Len(chunked[g]) >= 1 /\ Len(chunked[g]) <= chunkSize

\* C24 witness: five items in groups of two: two full groups and a last
\* group of one.
C24_ShortLastGroup ==
  /\ Len(chunkItems) = 5 /\ chunkSize = 2
  /\ Len(chunked) = 3
  /\ Len(chunked[3]) = 1


\* C25: the audit merge is idempotent: applying the same validated audit
\* result (same concerns, same POS fixes, same batch timestamp) to the same
\* batch of the merged and persisted store yields that store again.
C25_AuditMergeIdempotent ==
  [][(BatchDone /\ op = "audit")
       => LET p == parseLLMResult(resp)
          IN MergeAudit(Stored', Batch, p.concerns, p.posFixes, ISO(clock)) = Stored']_vars

\* C25 witness: an audit batch stored a concern for rank 1 and fixed its pos.
C25_ConcernAndPosFixMerged ==
  /\ 1 \in DOMAIN Stored
  /\ ConcernCount(Stored[1]) = 1
  /\ Stored[1].pos = S("ADJ")
  /\ Truthy(Stored[1].llmCheckOn)


\* the concerns stored on an entry
ConcernsOf(e) == IF e.concerns.t = "array" THEN e.concerns.v ELSE <<>>

\* C26: every concern stored on an entry has key = "def": findings with any
\* other key, "pos" included, are dropped before the merge.
C26_StoredConcernsAreDefKey ==
  \A r \in DOMAIN Stored :
    \A k \in 1..Len(ConcernsOf(Stored[r])) : Prop(ConcernsOf(Stored[r])[k], "key") = S("def")

\* C26 witness: an audit stored one concern on rank 1.
C26_ConcernStored ==
  /\ 1 \in DOMAIN Stored
  /\ Len(ConcernsOf(Stored[1])) = 1
  /\ Prop(ConcernsOf(Stored[1])[1], "rank") = JNum(1)
  /\ outcome = "ok"


\* C27: in every reachable state the entries whose pos is a tag outside the
\* target set are in the store with def = null, and no generation run includes such
\* an entry in a request.
C27_NonTargetPosHasNoDef ==
  /\ \A r \in DOMAIN Stored :
       Stored[r].pos \in ValidPos \ TARGET_POS => Stored[r].def = JNull
  /\ (pc # "idle" /\ op = "gen")
       => \A r \in BatchRanks(batches) : Stored[r].pos \in TARGET_POS


\* C28: in every reachable state of the store each entry's pos is one of the
\* twelve part-of-speech tags, also after an audit POS fix has been applied.
C28_StoredPosIsTag == \A r \in DOMAIN Stored : Stored[r].pos \in ValidPos


\* the enumerated field of a response item is inside its closed value set:
\* the action of a correction, the key of a concern, the newPos of a POS fix
InClosedSet(item) ==
  /\ Prop(item, "action") # JUndef
       => Prop(item, "action") \in {S("replace"), S("keep"), S("null")}
  /\ Prop(item, "key") # JUndef => Prop(item, "key") = S("def")
  /\ Prop(item, "newPos") # JUndef => Prop(item, "newPos") \in ValidPos

\* the response without the items whose enumerated field is outside its set
WithoutOutOfSet(response) ==
  IF response.kind # "json" THEN response
  ELSE [response EXCEPT !.body.v =
          [f \in DOMAIN @ |-> IF @[f].t = "array"
                              THEN JArr(SelectSeq(@[f].v, InClosedSet)) ELSE @[f]]]

\* C30: a response item whose enumerated field is outside its closed value set
\* (correction action, audit concern key, audit POS fix newPos) is dropped:
\* the batch is merged as if the response did not hold the item.
C30_OutOfSetItemHasNoEffect ==
  [][BatchDone
       => /\ (op = "correct")
               => Stored' = applyCorrections(record,
                              parseCorrections(WithoutOutOfSet(resp)).items, ISO(clock))
          /\ (op = "audit")
               => LET p == parseLLMResult(WithoutOutOfSet(resp))
                  IN Stored' = MergeAudit(record, Batch, p.concerns, p.posFixes,
                                          ISO(clock))]_vars


(***************************************************************************)
(* lemmatize: main.  The terms are lemmatized batch by batch, the results  *)
(* are collected in memory and written to lemmas.json after the last one.  *)
(***************************************************************************)
BATCH_SIZE_LEMMA == 2

\* loadTerms: the ranked terms of terms.json, in file order
allTerms == [k \in 1..Len(Lemmas) |-> [rank |-> Lemmas[k].rank, term |-> Lemmas[k].term]]

\* lemmas.json after writeFile(OUTPUT_PATH, JSON.stringify(results))
LemmaFile(entries) == [kind |-> "written", entries |-> entries]

\* main is started: loadTerms, results = []
StartLemmatize ==
  /\ lemPc = "idle"
  /\ lemPc' = "batch"
  /\ termIdx' = 0
  /\ lemResults' = <<>>
  /\ UNCHANGED outFile
  /\ UNCHANGED <<pipelineVars, retryVars, limiterVars, chunkVars, groupVars, windowVars>>

\* lemmatizeBatch resolves for allTerms.slice(i, i + BATCH_SIZE): every
\* lemmatizeWithRetry of the batch returned; after the last batch main
\* writes the collected results
BatchCompletes ==
  /\ lemPc = "batch"
  /\ termIdx < Len(allTerms)
  /\ LET batch == Slice(allTerms, termIdx, termIdx + BATCH_SIZE_LEMMA)
     IN \E tokens \in [1..Len(batch) -> SyntaxTokens] :
          LET batchResults == [k \in 1..Len(batch) |-> lemmatizeOne(batch[k], tokens[k])]
              all == lemResults \o batchResults
          IN /\ lemResults' = all
             /\ termIdx' = termIdx + BATCH_SIZE_LEMMA
             /\ IF termIdx' < Len(allTerms)
                THEN lemPc' = "batch" /\ UNCHANGED outFile
                ELSE lemPc' = "done" /\ outFile' = LemmaFile(all)
  /\ UNCHANGED <<pipelineVars, retryVars, limiterVars, chunkVars, groupVars, windowVars>>

\* a lemmatizeWithRetry of the batch throws (an error that is not a rate limit,
\* or the last rate-limit error): main rejects, the process ends with exit
\* code 1 and the results held in memory are lost
BatchFails ==
  /\ lemPc = "batch"
  /\ termIdx < Len(allTerms)
  /\ lemPc' = "failed"
  /\ lemResults' = <<>>
  /\ UNCHANGED <<termIdx, outFile>>
  /\ UNCHANGED <<pipelineVars, retryVars, limiterVars, chunkVars, groupVars, windowVars>>

SpecLemmatize == Init /\ [][StartLemmatize \/ BatchCompletes \/ BatchFails]_vars

\* C29: the results of each completed batch of the lemmatize run are on
\* durable storage before the next batch begins, so when batch i fails
\* fatally lemmas.json holds the results of batches 1..i-1.
C29_CompletedBatchesOnDisk ==
  (lemPc \in {"batch", "failed"} /\ termIdx > 0)
    => /\ outFile.kind = "written"
       /\ Len(outFile.entries) >= termIdx


\* C31: when the pending subset of generation, audit, correction or translation
\* is empty at the start of a run, the run issues no external call, changes no
\* existing entry of the store, and ends successfully.
C31_EmptyPendingIsNoOp ==
  [][LET NothingDone == /\ calls' = calls
                        /\ pc' = "idle"
                        /\ outcome' = "ok"
                        /\ \A r \in DOMAIN Stored :
                             r \in DOMAIN Stored' /\ Stored'[r] = Stored[r]
         l == loadDefinitions(disk)
     IN /\ (StartGeneration /\ l.err = ""
              /\ GenTodo(ensureAllRanksPresent(l.map, Lemmas, ISO(clock))) = <<>>)
             => NothingDone
        /\ (StartAudit /\ Loaded.err = "" /\ AuditPending(Loaded.map) = <<>>)
             => NothingDone
        /\ (StartCorrection /\ Loaded.err = "" /\ CorrectionPending(Loaded.map) = <<>>)
             => NothingDone
        /\ (StartTranslation /\ Loaded.err = "" /\ TranslationPending(Loaded.map) = <<>>)
             => NothingDone]_vars

\* an audit run found a store with entries, merged nothing and ended well
C31_AuditFoundNothingPending ==
  /\ pc = "idle" /\ outcome = "ok"
  /\ merged = [op |-> "audit", ranks |-> {}]
  /\ Stored # EmptyMap


\* C32: an audit run modifies only members of its pending subset: a merge of
\* an audit batch touches only entries that had a def and no llmCheckOn, and
\* every other entry of the store (stamped before, or with def = null) is
\* left as it was, whatever ranks the response names.
C32_AuditTouchesOnlyPending ==
  [][(pc = "merge" /\ op = "audit")
       => /\ \A r \in Range(Batch) :
               record[r].def # JNull /\ ~Truthy(record[r].llmCheckOn)
          /\ \A r \in DOMAIN Stored \ Range(Batch) :
               r \in DOMAIN Stored' /\ Stored'[r] = Stored[r]]_vars

\* an audit run has merged a batch and an entry without def is still unstamped
C32_NullDefLeftUnstamped ==
  /\ pc = "idle" /\ outcome = "ok"
  /\ merged.op = "audit" /\ merged.ranks # {}
  /\ \E r \in DOMAIN Stored \ merged.ranks :
       Stored[r].def = JNull /\ ~Truthy(Stored[r].llmCheckOn)


\* C33: whenever a step assigns an entry's def, the entry's provenance is
\* brought up to date in the same step: afterwards defRequestId is the id of
\* the batch call that produced the def and createdAt is the time of the step.
C33_AssignedDefHasProvenance ==
  [][\A r \in DOMAIN Stored \cap DOMAIN Stored' :
       (Stored'[r].def # Stored[r].def /\ Stored'[r].def # JNull)
         => /\ Stored'[r].defRequestId = reqId
            /\ Stored'[r].createdAt = ISO(clock)]_vars


\* C34: when the store file is absent, a generation run takes an empty mapping
\* and proceeds, creating the store by back-fill; an audit, correction,
\* translation or spot-check run fails without an external call and without
\* creating the file.
C34_AbsentStoreOnlyGenerationProceeds ==
  [][disk = NoFile
       => /\ StartGeneration
               => /\ disk' = StoreFile(ensureAllRanksPresent(EmptyMap, Lemmas, ISO(clock)))
                  /\ pc' = "call" /\ op' = "gen"
          /\ (StartAudit \/ StartCorrection \/ StartTranslation \/ SpotCheckDelete)
               => /\ disk' = NoFile
                  /\ calls' = calls
                  /\ pc' = "idle" /\ outcome' = "error"]_vars

\* a spot-check delete has failed on the absent store file
C34_SpotCheckFailedOnAbsentStore ==
  /\ disk = NoFile
  /\ Len(argv) = 2 /\ argv[1] = "--delete"
  /\ pc = "idle" /\ outcome = "error" /\ calls = 0


(***************************************************************************)
(* lemmatize: lemmatizeBatch.  The batch is cut into sub-groups of         *)
(* MAX_CONCURRENCY entries; the calls of a sub-group run side by side,     *)
(* each in its own lemmatizeWithRetry, and Promise.all waits for them.     *)
(***************************************************************************)
\* MAX_CONCURRENCY and the length of a batch, scaled down
GroupWidth == 2
GroupBatchLen == 3

\* a slice that takes one entry more than the concurrency width
GroupTooWide(i) == {k \in 1..GroupBatchLen : i < k /\ k <= i + GroupWidth + 1}

\* batch.slice(i, i + MAX_CONCURRENCY), as positions in the batch
Group(i) == {k \in 1..GroupBatchLen : i < k /\ k <= i + GroupWidth}

\* chunk.map((entry) => lemmatizeWithRetry(entry)): every call of the
\* sub-group is issued before the first await
StartGroup(i, pcs) == [k \in 1..GroupBatchLen |-> IF k \in Group(i) THEN "inflight" ELSE pcs[k]]

\* lemmatizeBatch(batch) is called: the first sub-group is started
StartBatch ==
  /\ subPc = "idle"
  /\ subPc' = "calls"
  /\ subStart' = 0
  /\ callPc' = StartGroup(0, [k \in 1..GroupBatchLen |-> "waiting"])
  /\ callAttempt' = [k \in 1..GroupBatchLen |-> 0]
  /\ delayed' = {}
  /\ UNCHANGED <<pipelineVars, retryVars, limiterVars, lemMainVars, chunkVars, windowVars>>

\* enforceRateLimit has returned: the loop's next round, or return results
AfterLimiter(pcs) ==
  /\ delayed' = delayed \cup {subStart}
  /\ IF subStart + GroupWidth < GroupBatchLen
     THEN /\ subStart' = subStart + GroupWidth
          /\ callPc' = StartGroup(subStart + GroupWidth, pcs)
          /\ subPc' = "calls"
     ELSE /\ subPc' = "done"
          /\ callPc' = pcs
          /\ UNCHANGED subStart

\* a call resolves; when it was the last of its sub-group Promise.all
\* resolves and enforceRateLimit runs, up to its return or its sleep
CallResolves ==
  /\ \E k \in DOMAIN callPc :
       /\ callPc[k] = "inflight"
       /\ LET pcs == [callPc EXCEPT ![k] = "done"]
          IN IF subPc = "calls" /\ \A j \in Group(subStart) : pcs[j] = "done"
             THEN \E sleeps \in BOOLEAN :
                    IF sleeps
                    THEN subPc' = "limit" /\ callPc' = pcs /\ UNCHANGED <<subStart, delayed>>
                    ELSE AfterLimiter(pcs)
             ELSE callPc' = pcs /\ UNCHANGED <<subPc, subStart, delayed>>
  /\ UNCHANGED callAttempt
  /\ UNCHANGED <<pipelineVars, retryVars, limiterVars, lemMainVars, chunkVars, windowVars>>

\* a call rejects: its wrapper backs off, or throws and Promise.all rejects
CallRejects ==
  /\ \E k \in DOMAIN callPc, code \in ErrorCodes :
       /\ callPc[k] = "inflight"
       /\ IF Rethrows(code, callAttempt[k])
          THEN /\ callPc' = [callPc EXCEPT ![k] = "failed"]
               /\ subPc' = IF subPc = "calls" THEN "failed" ELSE subPc
          ELSE /\ callPc' = [callPc EXCEPT ![k] = "backoff"]
               /\ UNCHANGED subPc
  /\ UNCHANGED <<subStart, callAttempt, delayed>>
  /\ UNCHANGED <<pipelineVars, retryVars, limiterVars, lemMainVars, chunkVars, windowVars>>

\* the back-off timer of a wrapper fires: its next attempt
CallRetries ==
  /\ \E k \in DOMAIN callPc :
       /\ callPc[k] = "backoff"
       /\ callPc' = [callPc EXCEPT ![k] = "inflight"]
       /\ callAttempt' = [callAttempt EXCEPT ![k] = @ + 1]
  /\ UNCHANGED <<subPc, subStart, delayed>>
  /\ UNCHANGED <<pipelineVars, retryVars, limiterVars, lemMainVars, chunkVars, windowVars>>

\* the timer of enforceRateLimit fires
LimiterWakes ==
  /\ subPc = "limit"
  /\ AfterLimiter(callPc)
  /\ UNCHANGED callAttempt
  /\ UNCHANGED <<pipelineVars, retryVars, limiterVars, lemMainVars, chunkVars, windowVars>>

SpecGroup ==
  Init /\ [][StartBatch \/ CallResolves \/ CallRejects \/ CallRetries \/ LimiterWakes]_vars

\* the loop value i of the sub-group the k-th entry of the batch is in
GroupOf(k) == ((k - 1) \div GroupWidth) * GroupWidth

\* C35: within a lemmatize batch at most MAX_CONCURRENCY calls are in flight,
\* and no call of a sub-group is started before every call of the sub-groups
\* before it has completed, retries included, and their rate-limit delay has
\* been applied.
C35_BoundedConcurrency ==
  /\ Cardinality({k \in DOMAIN callPc : callPc[k] = "inflight"}) <= GroupWidth
  /\ \A k \in DOMAIN callPc :
       callPc[k] # "waiting"
         => \A j \in DOMAIN callPc :
              GroupOf(j) < GroupOf(k) => callPc[j] = "done" /\ GroupOf(j) \in delayed

\* the second sub-group's call is in flight after a call of the first was retried
C35_SecondGroupAfterRetry ==
  /\ subPc = "calls" /\ subStart = GroupWidth
  /\ callPc[GroupBatchLen] = "inflight"
  /\ \E j \in Group(0) : callAttempt[j] > 0


(***************************************************************************)
(* lemmatize: the calls of a whole run over its first minute.  The terms   *)
(* file holds more terms than the run gets through in that minute, every   *)
(* sub-group is a full one, and a call that is rate limited is rate        *)
(* limited once.                                                           *)
(***************************************************************************)
\* the time in ms the service takes to answer a call
Latency == {1, 50}

\* one round of lemmatizeBatch's loop: MAX_CONCURRENCY calls are issued at
\* chunkStarted; those the service rejects with RESOURCE_EXHAUSTED are issued
\* again BASE_BACKOFF_MS after the rejection; enforceRateLimit then sleeps for
\* what is left of minDurationMs(chunk.length)
SubGroupRound ==
  /\ winNow < MS_PER_MINUTE
  /\ \E retried \in 0..MAX_CONCURRENCY, latency \in Latency :
       LET chunkStarted == winNow
           retryAt == chunkStarted + latency + BASE_BACKOFF_MS
           elapsedMs == IF retried > 0 THEN latency + BASE_BACKOFF_MS + latency ELSE latency
           minMs == minDurationMs(MAX_CONCURRENCY)
       IN /\ winIssued' = winIssued + MAX_CONCURRENCY
                            + (IF retryAt < MS_PER_MINUTE THEN retried ELSE 0)
          /\ winNow' = chunkStarted + (IF elapsedMs < minMs THEN minMs ELSE elapsedMs)
  /\ UNCHANGED <<pipelineVars, retryVars, limiterVars, lemMainVars, chunkVars, groupVars>>

SpecWindow == Init /\ [][SubGroupRound]_vars

\* C36: the calls a lemmatize run issues in a 60-second window, the calls of
\* retries included, never exceed MAX_REQUESTS_PER_MINUTE.
C36_WindowWithinQuota == winIssued <= MAX_REQUESTS_PER_MINUTE


(***************************************************************************)
(* Overlapping invocations: a spot-check --delete is run as a second       *)
(* process while a generation or an audit process is in its batch loop.    *)
(***************************************************************************)
\* spot-check main() in delete mode, run to its end beside the running process
OverlappingDelete ==
  /\ pc # "idle"
  /\ \E filterIds \in SUBSET IssuedIds :
       LET l == Load(disk)
           found == Targets(l.map, filterIds) # {}
           cleared == {r \in DOMAIN l.map : Clears(l.map[r], filterIds)}
           ticks == IF found /\ cleared # {} THEN 1 ELSE 0
       IN /\ argv' = <<"--delete", filterIds>>
          /\ clock + ticks <= MaxClock
          /\ disk' = IF l.err = "" /\ found
                     THEN Persist(DeleteLoop(l.map, filterIds, ISO(clock))) ELSE disk
          /\ console' = IF l.err # "" THEN <<>>
                        ELSE IF found THEN <<"Cleared", Cardinality(cleared)>>
                        ELSE <<"No entries found">>
          /\ clock' = clock + ticks
  /\ UNCHANGED <<record, pc, op, batches, batchIdx, reqId, resp, nextId, calls, outcome, merged>>
  /\ UNCHANGED lemmatizeVars

SpecOverlap ==
  Init /\ [][\/ StartGeneration \/ CallGeneration \/ MergeGeneration
             \/ StartAudit \/ CallAudit \/ MergeAuditBatch
             \/ OverlappingDelete]_vars

\* C37: overlapping invocations on one store file are not safe.  Every persist
\* of a running process writes the entries outside its batch from the mapping
\* the process loaded at its start, whatever the file holds by then, so an
\* update another process has persisted in the meantime is overwritten.
C37_PersistWritesLoadedRecord ==
  [][(BatchDone /\ op \in {"gen", "audit"})
       => \A r \in DOMAIN record \ Range(Batch) :
            r \in DOMAIN Stored' /\ Stored'[r] = record[r]]_vars

\* a delete cleared a definition and the running process's next persist put it back
C37_DeleteOverwritten ==
  /\ Len(console) = 2 /\ console[1] = "Cleared" /\ console[2] > 0
  /\ \E r \in DOMAIN Stored :
       Stored[r].defRequestId \in argv[2] /\ Stored[r].def # JNull


\* C38: an entry that has eng carries the gloss of its current def: no step
\* changes or clears an entry's def and leaves a stored eng in place.
C38_DefChangeDropsEng ==
  [][\A r \in DOMAIN Stored \cap DOMAIN Stored' :
       Stored'[r].def # Stored[r].def => ~Truthy(Stored'[r].eng)]_vars


(***************************************************************************)
(* Audit runs over a store that already holds definitions: for every rank  *)
(* a placeholder, an unaudited definition or an audited one.               *)
(***************************************************************************)
AuditStores == {m \in PartialStores : DOMAIN m = Ranks}

InitAudit ==
  /\ disk \in {StoreFile(m) : m \in AuditStores}
  /\ record = EmptyMap
  /\ pc = "idle"
  /\ op = "none"
  /\ batches = <<>>
  /\ batchIdx = 0
  /\ reqId = Empty
  /\ resp = NoResp
  /\ clock = 1
  /\ nextId = 2
  /\ calls = 0
  /\ outcome = "none"
  /\ merged = NoRun
  /\ argv = <<>>
  /\ console = <<>>
  /\ RetryIdle
  /\ LimiterIdle
  /\ LemmatizeIdle
  /\ GroupIdle
  /\ WindowIdle
  /\ chunkItems = <<>> /\ chunkSize = 1 /\ chunked = <<>>

SpecAuditRun == InitAudit /\ [][StartAudit \/ CallAudit \/ MergeAuditBatch]_vars

\* C39: an audit run in which every batch call succeeds terminates after
\* exactly ceil(|pending| / BATCH_SIZE) calls: its loop has that many rounds,
\* each round issues one call and a call that succeeds is followed by the next
\* round or, after the last, by the end of the run; when the run ends every
\* entry with a def has llmCheckOn, so the next audit run finds nothing pending.
C39_AuditRunTerminates ==
  [][/\ (pc = "idle" /\ pc' = "call")
          => /\ calls' = calls /\ batchIdx' = 0
             /\ Len(batches') = CeilDiv(Len(AuditPending(Loaded.map)), BATCH_SIZE_PATROL)
     /\ (pc = "call" /\ pc' = "merge") => calls' = calls + 1 /\ batchIdx' = batchIdx
     /\ (pc = "merge" /\ parseLLMResult(resp).ok)
          => /\ calls' = calls
             /\ IF batchIdx + 1 < Len(batches)
                THEN pc' = "call" /\ batchIdx' = batchIdx + 1
                ELSE /\ pc' = "idle" /\ outcome' = "ok"
                     /\ AuditPending(Stored') = <<>>
                     /\ \A r \in DOMAIN Stored' :
                          Stored'[r].def # JNull => Truthy(Stored'[r].llmCheckOn)]_vars

\* a run of two batches has ended after two calls and nothing is pending
C39_TwoBatchesTwoCalls ==
  /\ pc = "idle" /\ outcome = "ok"
  /\ calls = 2
  /\ merged.op = "audit" /\ Cardinality(merged.ranks) > BATCH_SIZE_PATROL
  /\ AuditPending(Stored) = <<>>


\* the rate-limit rejections among the answers
RateLimitedCount(answers) ==
  Cardinality({n \in 1..Len(answers) :
                 answers[n].kind = "error" /\ answers[n].code = JNum(RESOURCE_EXHAUSTED)})

\* C40: after the failed attempt with index a < MAX_RETRIES the wrapper waits
\* exactly BASE_BACKOFF_MS * 2^a ms before the next attempt (1000, 2000, 4000,
\* 8000, 16000 ms), once per failed attempt, and it does not wait after the
\* failed attempt with index MAX_RETRIES.
C40_ExponentialBackoff ==
  /\ \A n \in 1..Len(slept) : slept[n] = BASE_BACKOFF_MS * 2^(n - 1)
  /\ slept = SubSeq(<<1000, 2000, 4000, 8000, 16000>>, 1, Len(slept))
  /\ Len(slept) = Min(RateLimitedCount(served), MAX_RETRIES)
  /\ retryPc = "sleep" => attempt < MAX_RETRIES /\ Len(slept) = attempt + 1
  /\ RateLimitedCount(served) = MAX_RETRIES + 1 => retryPc = "thrown"

\* every attempt was rate limited: five waits, none after the last failure
C40_FiveWaitsThenThrown ==
  /\ retryPc = "thrown"
  /\ tries = MAX_RETRIES + 1
  /\ slept = <<1000, 2000, 4000, 8000, 16000>>

====
